---------------------------- MODULE Spec2Model ----------------------------
(***************************************************************************)
(* Model of the openCost reconciliation engine (opencost_toolkit_v2.py)    *)
(* and of the incremental merge (do_harvest.py, integrate_changes).        *)
(*                                                                         *)
(* Python values are tagged records: Str(s) a string, Num(n) a float,      *)
(* None the None object.  Monetary amounts are counted in half cents       *)
(* (0.005 EUR), so that "rounded to 2 decimals" is "a multiple of 2" and   *)
(* amounts with a third decimal exist.  A Python dict is a function whose  *)
(* DOMAIN is the set of its keys.                                          *)
(***************************************************************************)
EXTENDS Integers, Sequences, FiniteSets, TLC

VARIABLES
    pc,             \* which call has been made: "start" before, "done" after
    tie_up,         \* how round() resolves a quotient lying exactly between two cents
    cost_data,      \* input of _process_oc_publication_cost_data
    pub_ret,        \* its return value
    xml,            \* input of process_opencost_xml: one openCost data element
    xml_records,    \* extracted_publications as handed to _apply_contract_data
    xml_invoices,   \* extracted_invoices as handed to _apply_contract_data
    xml_ret,        \* return value of process_opencost_xml
    batch,          \* input of process_opencost_oai_records: the harvested OAI records
    oai_ret,        \* its return value
    articles,       \* integrate_changes: the incoming articles
    file,           \* integrate_changes: the dataset file
    file_before,    \* the dataset file as it was before the last call
    returned,       \* return value of the last integrate_changes call
    report,         \* line_change and remove messages of the last call
    calls,          \* the last two integrate_changes calls
    inv_element,    \* input of _process_oc_invoice_data: one invoice element
    inv_strict_vat, \* its strict_vat argument
    inv_ret,        \* its return value
    contract_element, \* input of _process_oc_contract_cost_data: the invoice elements
    contract_ret        \* its return value

vars == <<pc, tie_up, cost_data, pub_ret, xml, xml_records, xml_invoices, xml_ret,
          batch, oai_ret, articles, file, file_before, returned, report, calls,
          inv_element, inv_strict_vat, inv_ret, contract_element, contract_ret>>

\* The variables of the calls on single invoices and contracts.
lower == <<inv_element, inv_strict_vat, inv_ret, contract_element, contract_ret>>
LowerIdle ==
    /\ inv_element = <<>> /\ inv_strict_vat = FALSE /\ inv_ret = <<>>
    /\ contract_element = <<>> /\ contract_ret = <<>>

-----------------------------------------------------------------------------
(* Python values *)

Str(s) == [t |-> "str", v |-> s]
Num(n) == [t |-> "num", v |-> n]
None == [t |-> "none"]
\* The text of an XML element that spells the number n (in half cents).
NumText(n) == [t |-> "numstr", v |-> n]
\* Another spelling f of the number n, such as "0.020" for 0.02.
NumTextAs(n, f) == [t |-> "numstr", v |-> n, f |-> f]
\* An element that is absent, or present without text.
NoText == [t |-> "notext"]

IsNone(x) == "t" \in DOMAIN x /\ x.t = "none"
IsNum(x) == "t" \in DOMAIN x /\ x.t = "num"

NA == Str("NA")
Empty == Str("")

Put(d, k, v) == [x \in (DOMAIN d) \cup {k} |-> IF x = k THEN v ELSE d[x]]
EmptyDict == [x \in {} |-> None]

\* oat.has_value: a value is present unless it is missing, empty or "NA".
has_value(x) == ~IsNone(x) /\ x # Empty /\ x # NA

\* oat._auto_atof: the float a text spells, None when it spells none.
_auto_atof(x) == IF x.t = "numstr" THEN Num(x.v) ELSE None

\* str(): the text of a float spells it; a string is itself.
PyStr(x) == IF x.t = "num" THEN NumText(x.v) ELSE x

\* round(num / den, 2) for den > 0, in half cents: the nearest multiple of 2.
\* A quotient exactly between two cents goes where its binary float lies.
Round2(num, den) ==
    LET q == num \div (2 * den)
        r == num - q * 2 * den
    IN  IF r < den THEN 2 * q
        ELSE IF r > den THEN 2 * q + 2
        ELSE IF tie_up THEN 2 * q + 2 ELSE 2 * q

-----------------------------------------------------------------------------
(* opencost_toolkit_v2.py *)

OPENCOST_EXTRACTION_FIELDS ==
    {"period", "euro", "doi", "is_hybrid", "contract_primary_identifier",
     "contract_invoice_id", "gold-oa", "vat", "hybrid-oa", "other"}

\* The annual rates oat.get_euro_exchange_rates returns, per currency and
\* period; a currency outside the DOMAIN makes the service raise ValueError.
EXCHANGE_RATES == "USD" :> ("2021" :> 2)

\* re.match(r"\d{4}-[0-1]{1}\d(-[0-3]{1}\d)?", text) over the date texts used.
DateMatches(text) == text \in {"2021-03-15", "2020-11"}
DateYear(text) ==
    CASE text = "2021-03-15" -> "2021"
      [] text = "2020-11" -> "2020"
      [] OTHER -> text
DateValue(text) == IF DateMatches(text) THEN DateYear(text) ELSE text

\* Python's < on the date strings used: digits sort before letters.
StrRank(s) ==
    CASE s = "2020" -> 1
      [] s = "2021" -> 2
      [] s = "2022" -> 3
      [] OTHER -> 4
StrLess(a, b) == StrRank(a.v) < StrRank(b.v)

Ret(success, data, error_msg) ==
    [success |-> success, data |-> data, error_msg |-> error_msg, exc |-> "none"]
\* The call does not return: an exception leaves it.
Raise(exc) == [success |-> FALSE, data |-> None, error_msg |-> "None", exc |-> exc]
Raised(ret) == ret.exc # "none"

\* InvoiceDates that leaves out dates//paid.
InvoiceDates_InvoiceOnly(invoice_element) ==
    IF invoice_element.date_invoice = NoText THEN EmptyDict
    ELSE "date_invoice" :> Str(DateValue(invoice_element.date_invoice.v))

\* Lines 145-156: the date fields of an invoice element.
InvoiceDates(invoice_element) ==
    LET d1 == IF invoice_element.date_paid = NoText THEN EmptyDict
              ELSE "date_paid" :> Str(DateValue(invoice_element.date_paid.v))
    IN  IF invoice_element.date_invoice = NoText THEN d1
        ELSE Put(d1, "date_invoice", Str(DateValue(invoice_element.date_invoice.v)))

\* Lines 157-200: the amount_paid elements from the i-th on.
RECURSIVE AmountsPaid(_, _, _, _)
AmountsPaid(results, i, data, strict_vat) ==
    IF i > Len(results) THEN Ret(TRUE, data, "None")
    ELSE
    LET result == results[i]
        cur == result.currency
        cost_type == result.cost_type
        value == IF result.amount = NoText THEN Num(0) ELSE _auto_atof(result.amount)
        period == IF "date_paid" \in DOMAIN data THEN data["date_paid"].v
                  ELSE data["date_invoice"].v
        Add(v) ==
            IF cost_type \in DOMAIN data
            THEN IF cost_type = "vat" /\ strict_vat THEN Ret(FALSE, None, "multiple_vats")
                 ELSE IF IsNone(data[cost_type]) \/ IsNone(v) THEN Raise("TypeError")
                 ELSE AmountsPaid(results, i + 1,
                                  Put(data, cost_type, Num(data[cost_type].v + v.v)),
                                  strict_vat)
            ELSE AmountsPaid(results, i + 1, Put(data, cost_type, v), strict_vat)
    IN  IF ~result.text THEN AmountsPaid(results, i + 1, data, strict_vat)
        ELSE IF cur # "EUR"
        THEN IF "date_paid" \notin DOMAIN data /\ "date_invoice" \notin DOMAIN data
             THEN Ret(FALSE, None, "conv_no_period")
             ELSE IF cur \notin DOMAIN EXCHANGE_RATES
             THEN Ret(FALSE, None, "conv_failed")
             ELSE IF period \notin DOMAIN EXCHANGE_RATES[cur]
             THEN Ret(FALSE, None, "conv_no_rate")
             ELSE IF IsNone(value) THEN Raise("TypeError")
             ELSE Add(Num(Round2(value.v, EXCHANGE_RATES[cur][period])))
        ELSE Add(value)

\* _process_oc_invoice_data that is strict whatever the caller asks for.
_process_oc_invoice_data_Strict(invoice_element, strict_vat) ==
    AmountsPaid(invoice_element.amounts_paid, 1, InvoiceDates(invoice_element), TRUE)

_process_oc_invoice_data(invoice_element, strict_vat) ==
    AmountsPaid(invoice_element.amounts_paid, 1, InvoiceDates(invoice_element), strict_vat)

DateFields == {"date_paid", "date_invoice"}

\* Lines 474-480: the part_of_contract reference.
PartOfContract(cost_data_element) ==
    LET poc == cost_data_element.part_of_contract
        d1 == IF poc.present /\ poc.primary_identifier # NoText
              THEN "contract_primary_identifier" :> poc.primary_identifier
              ELSE EmptyDict
    IN  IF poc.present /\ poc.invoice_id # NoText
        THEN Put(d1, "contract_invoice_id", poc.invoice_id)
        ELSE d1

\* Lines 482-488: every invoice is extracted; the first failure is returned.
RECURSIVE ExtractInvoices(_, _, _)
\* Lines 486-488, with the processed_invoice of line 485.
InvoiceExtracted(invoices, i, invoices_data, processed_invoice) ==
    IF Raised(processed_invoice) \/ ~processed_invoice.success
    THEN processed_invoice
    ELSE ExtractInvoices(invoices, i + 1, Append(invoices_data, processed_invoice.data))

ExtractInvoices(invoices, i, invoices_data) ==
    IF i > Len(invoices) THEN Ret(TRUE, invoices_data, "None")
    ELSE InvoiceExtracted(invoices, i, invoices_data,
                          _process_oc_invoice_data(invoices[i], TRUE))

\* Lines 493-513: one invoice's fields are merged into final_data.
MergeCrashes(final_data, invoice_data) ==
    \E field \in (DOMAIN invoice_data) \cap (DOMAIN final_data) :
        /\ field \notin DateFields
        /\ (IsNone(final_data[field]) \/ IsNone(invoice_data[field]))

MergeInvoice(final_data, invoice_data) ==
    [field \in (DOMAIN final_data) \cup (DOMAIN invoice_data) |->
        IF field \notin DOMAIN invoice_data THEN final_data[field]
        ELSE IF field \notin DOMAIN final_data THEN invoice_data[field]
        ELSE IF field \in DateFields
        THEN IF StrLess(invoice_data[field], final_data[field])
             THEN invoice_data[field] ELSE final_data[field]
        ELSE Num(final_data[field].v + invoice_data[field].v)]

\* Lines 490-513.
RECURSIVE MergeInvoices(_, _, _)
MergeInvoices(invoices_data, i, final_data) ==
    IF i > Len(invoices_data) THEN Ret(TRUE, final_data, "None")
    ELSE IF MergeCrashes(final_data, invoices_data[i]) THEN Raise("TypeError")
    ELSE MergeInvoices(invoices_data, i + 1, MergeInvoice(final_data, invoices_data[i]))

\* EuroFrom without the vat: euro is the cost type's value alone.
EuroFrom_NoVat(final_data, cost_type, is_hybrid) ==
    Ret(TRUE, Put(Put(final_data, "euro", final_data[cost_type]),
                  "is_hybrid", Str(is_hybrid)), "None")

\* Lines 518-527: euro and is_hybrid from one cost type.
EuroFrom(final_data, cost_type, is_hybrid) ==
    IF "vat" \in DOMAIN final_data
    THEN IF IsNone(final_data[cost_type]) \/ IsNone(final_data["vat"])
         THEN Raise("TypeError")
         ELSE Ret(TRUE, Put(Put(final_data, "euro",
                                Num(final_data[cost_type].v + final_data["vat"].v)),
                            "is_hybrid", Str(is_hybrid)), "None")
    ELSE Ret(TRUE, Put(Put(final_data, "euro", final_data[cost_type]),
                       "is_hybrid", Str(is_hybrid)), "None")

\* PeriodFrom that asks for a date of every publication, in a contract or not.
PeriodFrom_NoDeferral(final_data) ==
    IF "date_paid" \in DOMAIN final_data
    THEN Ret(TRUE, Put(final_data, "period", final_data["date_paid"]), "None")
    ELSE IF "date_invoice" \in DOMAIN final_data
    THEN Ret(TRUE, Put(final_data, "period", final_data["date_invoice"]), "None")
    ELSE Ret(FALSE, None, "no_date")

\* PeriodFrom that prefers date_invoice to date_paid.
PeriodFrom_InvoiceFirst(final_data) ==
    IF "date_invoice" \in DOMAIN final_data
    THEN Ret(TRUE, Put(final_data, "period", final_data["date_invoice"]), "None")
    ELSE IF "date_paid" \in DOMAIN final_data
    THEN Ret(TRUE, Put(final_data, "period", final_data["date_paid"]), "None")
    ELSE IF "contract_invoice_id" \in DOMAIN final_data
    THEN Ret(TRUE, final_data, "None")
    ELSE Ret(FALSE, None, "no_date")

\* Lines 528-537: the period.
PeriodFrom(final_data) ==
    IF "date_paid" \in DOMAIN final_data
    THEN Ret(TRUE, Put(final_data, "period", final_data["date_paid"]), "None")
    ELSE IF "date_invoice" \in DOMAIN final_data
    THEN Ret(TRUE, Put(final_data, "period", final_data["date_invoice"]), "None")
    ELSE IF "contract_invoice_id" \notin DOMAIN final_data
    THEN Ret(FALSE, None, "no_date")
    ELSE Ret(TRUE, final_data, "None")

\* FinalMapping without the gold/hybrid check: the later hybrid-oa branch wins.
FinalMapping_NoConflictCheck(final_data) ==
    LET mapped == IF "hybrid-oa" \in DOMAIN final_data
                  THEN EuroFrom(final_data, "hybrid-oa", "TRUE")
                  ELSE IF "gold-oa" \in DOMAIN final_data
                  THEN EuroFrom(final_data, "gold-oa", "FALSE")
                  ELSE Ret(TRUE, final_data, "None")
    IN  IF Raised(mapped) THEN mapped ELSE PeriodFrom(mapped.data)

\* Lines 515-537: consistency checks, hybrid status, euro and period.
FinalMapping(final_data) ==
    IF "gold-oa" \in DOMAIN final_data /\ "hybrid-oa" \in DOMAIN final_data
    THEN Ret(FALSE, None, "gold_hybrid_mix")
    ELSE LET mapped == IF "gold-oa" \in DOMAIN final_data
                       THEN EuroFrom(final_data, "gold-oa", "FALSE")
                       ELSE IF "hybrid-oa" \in DOMAIN final_data
                       THEN EuroFrom(final_data, "hybrid-oa", "TRUE")
                       ELSE Ret(TRUE, final_data, "None")
         IN  IF Raised(mapped) THEN mapped ELSE PeriodFrom(mapped.data)

\* Lines 514-537, with the final_data the merge of lines 490-513 leaves.
MergedMapping(merged) ==
    IF Raised(merged) THEN merged ELSE FinalMapping(merged.data)

\* Lines 486-537, with what the loop of lines 484-488 leaves.
ExtractedMapping(cost_data_element, extracted) ==
    IF Raised(extracted) \/ ~extracted.success THEN extracted
    ELSE MergedMapping(MergeInvoices(extracted.data, 1, PartOfContract(cost_data_element)))

_process_oc_publication_cost_data(cost_data_element) ==
    ExtractedMapping(cost_data_element,
                     ExtractInvoices(cost_data_element.invoices, 1, <<>>))


\* Lines 244-257: invoice_id, from, to and dates//date_invoice of a contract invoice.
InvoiceMetadata(invoice_element, data) ==
    LET d1 == IF invoice_element.invoice_id = NoText THEN data
              ELSE Put(data, "invoice_id", invoice_element.invoice_id)
        d2 == IF invoice_element.from = NoText THEN d1
              ELSE Put(d1, "from", Str(DateValue(invoice_element.from.v)))
        d3 == IF invoice_element.to = NoText THEN d2
              ELSE Put(d2, "to", Str(DateValue(invoice_element.to.v)))
    IN  IF invoice_element.dates_date_invoice = NoText THEN d3
        ELSE Put(d3, "date_invoice", Str(DateValue(invoice_element.dates_date_invoice.v)))

TotalFields == {"read", "publishing", "vat"}

RECURSIVE SumFields(_, _)
SumFields(data, fields) ==
    IF fields = {} THEN 0
    ELSE LET f == CHOOSE x \in fields : TRUE
         IN  data[f].v + SumFields(data, fields \ {f})

\* ContractInvoice without the comparison of from and to: from is the period.
ContractInvoice_NoDiffCheck(data) ==
    IF "invoice_id" \notin DOMAIN data \/ ~has_value(data["invoice_id"])
    THEN Ret(FALSE, None, "no_invoice_id")
    ELSE IF \E f \in TotalFields \cap DOMAIN data : IsNone(data[f])
    THEN Raise("TypeError")
    ELSE LET total == Put(data, "invoice_total",
                          Num(SumFields(data, TotalFields \cap DOMAIN data)))
         IN  IF "from" \in DOMAIN data /\ "to" \in DOMAIN data
             THEN Ret(TRUE, Put(total, "invoice_period", data["from"]), "None")
             ELSE IF "date_invoice" \in DOMAIN data
             THEN Ret(TRUE, Put(total, "invoice_period", data["date_invoice"]), "None")
             ELSE Ret(FALSE, None, "from_or_to_missing")

\* Lines 258-283: invoice_id check, invoice_total and invoice_period of one invoice.
ContractInvoice(data) ==
    IF "invoice_id" \notin DOMAIN data \/ ~has_value(data["invoice_id"])
    THEN Ret(FALSE, None, "no_invoice_id")
    ELSE IF \E f \in TotalFields \cap DOMAIN data : IsNone(data[f])
    THEN Raise("TypeError")
    ELSE LET total == Put(data, "invoice_total",
                          Num(SumFields(data, TotalFields \cap DOMAIN data)))
         IN  IF "from" \in DOMAIN data /\ "to" \in DOMAIN data
             THEN IF data["from"] = data["to"]
                  THEN Ret(TRUE, Put(total, "invoice_period", data["from"]), "None")
                  ELSE Ret(FALSE, None, "from_to_diff")
             ELSE IF "date_invoice" \in DOMAIN data
             THEN Ret(TRUE, Put(total, "invoice_period", data["date_invoice"]), "None")
             ELSE Ret(FALSE, None, "from_or_to_missing")

\* Lines 238-286: the invoices of one contract from the i-th on.
RECURSIVE ContractInvoices(_, _, _)
\* ContractInvoiceChecked that leaves out a failing invoice and goes on with
\* the next invoice of the contract.
ContractInvoiceChecked_SkipFailing(invoice_elements, i, extracted_invoices, invoice) ==
    IF Raised(invoice) THEN invoice
    ELSE IF ~invoice.success
    THEN ContractInvoices(invoice_elements, i + 1, extracted_invoices)
    ELSE ContractInvoices(invoice_elements, i + 1, Append(extracted_invoices, invoice.data))

\* Line 283, or the failure of lines 258-282.
ContractInvoiceChecked(invoice_elements, i, extracted_invoices, invoice) ==
    IF Raised(invoice) \/ ~invoice.success THEN invoice
    ELSE ContractInvoices(invoice_elements, i + 1, Append(extracted_invoices, invoice.data))

\* Lines 241-283, with the processed_invoice of line 240.
ContractInvoiceProcessed(invoice_elements, i, extracted_invoices, processed_invoice) ==
    IF Raised(processed_invoice) \/ ~processed_invoice.success
    THEN processed_invoice
    ELSE ContractInvoiceChecked(invoice_elements, i, extracted_invoices,
                                ContractInvoice(InvoiceMetadata(invoice_elements[i],
                                                                processed_invoice.data)))

ContractInvoices(invoice_elements, i, extracted_invoices) ==
    IF i > Len(invoice_elements) THEN Ret(TRUE, extracted_invoices, "None")
    ELSE ContractInvoiceProcessed(invoice_elements, i, extracted_invoices,
                                  _process_oc_invoice_data(invoice_elements[i], FALSE))

_process_oc_contract_cost_data(cost_data_element) ==
    ContractInvoices(cost_data_element, 1, <<>>)

\* Lines 556-563: an invoice_id that occurs twice ends the run.
InvoiceIdDup(extracted_invoices) ==
    \E i, j \in 1..Len(extracted_invoices) :
        i < j /\ extracted_invoices[i]["invoice_id"] = extracted_invoices[j]["invoice_id"]

\* Lines 567-570: the record refers to the invoice.
RefersTo(record, invoice_id) ==
    /\ has_value(record["contract_invoice_id"])
    /\ record["contract_invoice_id"] = invoice_id

\* Lines 571-577: the record carries a direct cost; a warning is printed and
\* the "continue" leaves the loop over the two cost types only.
CostAssigned(record) ==
    \E cost_type \in {"gold-oa", "hybrid-oa"} :
        has_value(record[cost_type]) /\ record[cost_type].v > 0

\* TargetRecords with the "continue" of line 577 leaving the loop over the records.
TargetRecords_SkipCostAssigned(extracted_records, invoice_id) ==
    {i \in 1..Len(extracted_records) :
        RefersTo(extracted_records[i], invoice_id) /\ ~CostAssigned(extracted_records[i])}

\* Lines 566-579: the records that get target_invoice_id, which record_count counts.
TargetRecords(extracted_records, invoice_id) ==
    {i \in 1..Len(extracted_records) : RefersTo(extracted_records[i], invoice_id)}

\* Lines 564-595: one invoice of invoice_dict.
ApplyInvoice(extracted_records, invoice) ==
    LET targets == TargetRecords(extracted_records, invoice["invoice_id"])
        record_count == Cardinality(targets)
        record_costs == Round2(invoice["invoice_total"].v, record_count)
    IN  IF record_count = 0 THEN extracted_records
        ELSE [i \in 1..Len(extracted_records) |->
                IF i \in targets
                THEN [extracted_records[i] EXCEPT !["euro"] = Num(record_costs),
                                                  !["period"] = invoice["invoice_period"],
                                                  !["is_hybrid"] = Str("TRUE")]
                ELSE extracted_records[i]]

RECURSIVE ApplyInvoices(_, _, _)
ApplyInvoices(extracted_records, extracted_invoices, i) ==
    IF i > Len(extracted_invoices) THEN extracted_records
    ELSE ApplyInvoices(ApplyInvoice(extracted_records, extracted_invoices[i]),
                       extracted_invoices, i + 1)

\* Lines 539-596.  sys is not imported, so sys.exit() raises NameError.
_apply_contract_data(extracted_records, extracted_invoices) ==
    IF InvoiceIdDup(extracted_invoices) THEN Raise("NameError")
    ELSE Ret(TRUE, ApplyInvoices(extracted_records, extracted_invoices, 1), "None")

\* Line 407: the row of a publication whose cost data could not be resolved.
PlaceholderRow == [field \in OPENCOST_EXTRACTION_FIELDS |-> Empty]

\* Lines 393-412: one publication element.
PublicationData(publication, cost_data_extract) ==
    [field \in OPENCOST_EXTRACTION_FIELDS |->
        IF field \in DOMAIN cost_data_extract.data THEN cost_data_extract.data[field]
        ELSE IF field = "doi" /\ publication.doi # NoText THEN publication.doi
        ELSE NA]

\* Lines 392-412: the publication elements from the i-th on.  A publication
\* without a cost_data element makes line 474 raise AttributeError.
RECURSIVE Publications(_, _, _)
\* Lines 402-412, with the cost_data_extract of line 401.
PublicationExtracted(publications, i, extracted_publications, cost_data_extract) ==
    IF Raised(cost_data_extract) THEN cost_data_extract
    ELSE IF ~cost_data_extract.success
    THEN Publications(publications, i + 1, Append(extracted_publications, PlaceholderRow))
    ELSE Publications(publications, i + 1,
                      Append(extracted_publications,
                             PublicationData(publications[i], cost_data_extract)))

Publications(publications, i, extracted_publications) ==
    IF i > Len(publications) THEN Ret(TRUE, extracted_publications, "None")
    ELSE PublicationExtracted(publications, i, extracted_publications,
             IF publications[i].has_cost_data
             THEN _process_oc_publication_cost_data(publications[i].cost_data)
             ELSE Raise("AttributeError"))

\* Lines 413-420: the contract elements from the i-th on; a contract that
\* fails is skipped.
RECURSIVE Contracts(_, _, _)
\* Lines 417-420, with the invoices_extract of line 416.
ContractExtracted(contracts, i, extracted_invoices, invoices_extract) ==
    IF Raised(invoices_extract) THEN invoices_extract
    ELSE IF ~invoices_extract.success
    THEN Contracts(contracts, i + 1, extracted_invoices)
    ELSE Contracts(contracts, i + 1, extracted_invoices \o invoices_extract.data)

Contracts(contracts, i, extracted_invoices) ==
    IF i > Len(contracts) THEN Ret(TRUE, extracted_invoices, "None")
    ELSE ContractExtracted(contracts, i, extracted_invoices,
                           _process_oc_contract_cost_data(contracts[i]))

\* Lines 364-422, for one XML string.  The result also carries what line 421
\* hands to _apply_contract_data.
XmlExtracted(pubs, invs) ==
    IF Raised(pubs) THEN [ret |-> pubs, records |-> <<>>, invoices |-> <<>>]
    ELSE IF Raised(invs) THEN [ret |-> invs, records |-> pubs.data, invoices |-> <<>>]
    ELSE [ret |-> _apply_contract_data(pubs.data, invs.data),
          records |-> pubs.data, invoices |-> invs.data]

process_opencost_xml(xml_content) ==
    XmlExtracted(Publications(xml_content.publications, 1, <<>>),
                 Contracts(xml_content.contracts, 1, <<>>))


\* oat.get_normalised_DOI: the normalised DOI, None when the text is no DOI.
get_normalised_DOI(doi) ==
    CASE doi = Str("10.1/A") -> Str("10.1/a")
      [] doi = Str("10.1/b") -> Str("10.1/b")
      [] OTHER -> None

\* Lines 338-347: a value that is not None becomes its str(); the doi is normalised.
Stringified(publication, key) ==
    IF IsNone(publication[key]) THEN None
    ELSE IF key = "doi"
    THEN IF IsNone(get_normalised_DOI(PyStr(publication[key]))) THEN NA
         ELSE get_normalised_DOI(PyStr(publication[key]))
    ELSE PyStr(publication[key])

\* Lines 348-356: the loop over the keys is left at euro.
EuroBreaks(publication) ==
    /\ ~IsNone(publication["euro"])
    /\ \/ ~has_value(PyStr(publication["euro"]))
       \/ /\ ~IsNone(_auto_atof(PyStr(publication["euro"])))
          /\ _auto_atof(PyStr(publication["euro"])).v <= 0

\* The keys that precede euro in the dict, and euro.
KeysUpToEuro == {"period", "euro"}

\* Lines 332-356: the publication dict after its turn in the loop, in place.
Postprocessed(publication, identifier) ==
    [key \in (DOMAIN publication) \cup {"identifier"} |->
        IF key = "identifier"
        THEN IF EuroBreaks(publication) THEN identifier ELSE PyStr(identifier)
        ELSE IF EuroBreaks(publication) /\ key \notin KeysUpToEuro THEN publication[key]
        ELSE Stringified(publication, key)]

\* Lines 357-358: the else belongs to the loop over the keys, and the whole
\* list of the record is added once for every publication that passes.
RECURSIVE AddPublications(_, _, _, _)
AddPublications(publications, processed, i, extracted_publications) ==
    IF i > Len(publications) THEN extracted_publications
    ELSE IF EuroBreaks(publications[i])
    THEN AddPublications(publications, processed, i + 1, extracted_publications)
    ELSE AddPublications(publications, processed, i + 1,
                         extracted_publications \o processed)

\* Lines 310-358: the OAI records from the i-th on.
RECURSIVE OaiRecords(_, _, _)
\* Lines 331-358, with the publications of line 330.
RecordProcessed(records, i, extracted_publications, publications) ==
    IF Raised(publications) THEN publications
    ELSE LET processed ==
                 [k \in 1..Len(publications.data) |->
                     Postprocessed(publications.data[k], records[i].identifier)]
         IN  OaiRecords(records, i + 1,
                        AddPublications(publications.data, processed, 1,
                                        extracted_publications))

OaiRecords(records, i, extracted_publications) ==
    IF i > Len(records) THEN Ret(TRUE, extracted_publications, "None")
    ELSE IF ~records[i].has_data THEN OaiRecords(records, i + 1, extracted_publications)
    ELSE RecordProcessed(records, i, extracted_publications,
                         process_opencost_xml(records[i].data).ret)

\* Lines 288-362 with validate_only=False and no processing instructions.
process_opencost_oai_records(xml_content) == OaiRecords(xml_content, 1, <<>>)

-----------------------------------------------------------------------------
(* do_harvest.py *)

\* Line 65.
enriched_blacklist ==
    {"institution", "publisher", "journal_full_title", "issn", "license_ref", "pmid"}

\* Lines 66-71: the OrderedDict of the articles by url, as its items in order.
\* A url seen again keeps its place and takes the later article.
RECURSIVE ArticleDict(_, _, _)
ArticleDict(arts, i, article_dict) ==
    IF i > Len(arts) THEN article_dict
    ELSE LET url == arts[i]["url"]
         IN  IF ~has_value(url) THEN ArticleDict(arts, i + 1, article_dict)
             ELSE IF \E k \in 1..Len(article_dict) : article_dict[k].url = url
             THEN ArticleDict(arts, i + 1,
                      [k \in 1..Len(article_dict) |->
                          IF article_dict[k].url = url
                          THEN [url |-> url, article |-> arts[i]]
                          ELSE article_dict[k]])
             ELSE ArticleDict(arts, i + 1,
                              Append(article_dict, [url |-> url, article |-> arts[i]]))

InDict(article_dict, url) == \E k \in 1..Len(article_dict) : article_dict[k].url = url
Lookup(article_dict, url) ==
    article_dict[CHOOSE k \in 1..Len(article_dict) : article_dict[k].url = url].article
\* Del that leaves the article in the dict.
Del_Keep(article_dict, url) == article_dict

\* Line 104.
Del(article_dict, url) == SelectSeq(article_dict, LAMBDA item : item.url # url)

\* Lines 95-100: old and new euro are the same number.
SameEuro(old, new) ==
    /\ ~IsNone(_auto_atof(old))
    /\ ~IsNone(_auto_atof(new))
    /\ _auto_atof(old).v = _auto_atof(new).v

\* Updates without the blacklist of the enriched file.
Updates_NoBlacklist(line, article, key, enriched_file) ==
    /\ key \in DOMAIN line
    /\ ~(key = "euro" /\ SameEuro(line[key], article[key]))
    /\ article[key] # line[key]

\* Lines 88-101: the column of the line takes the value of the article.
Updates(line, article, key, enriched_file) ==
    /\ key \in DOMAIN line
    /\ ~(enriched_file /\ key \in enriched_blacklist)
    /\ ~(key = "euro" /\ SameEuro(line[key], article[key]))
    /\ article[key] # line[key]

\* UpdatedLine that reports the changes and leaves the line as it was.
UpdatedLine_NotAssigned(line, article, enriched_file) == line

\* Lines 88-105: the line after the values of its article went in.
UpdatedLine(line, article, enriched_file) ==
    [key \in DOMAIN line |->
        IF key \in DOMAIN article /\ Updates(line, article, key, enriched_file)
        THEN article[key] ELSE line[key]]

\* Line 102: the line_change messages of one line.
LineChanges(line_num, line, article, enriched_file) ==
    {[msg |-> "line_change", line_num |-> line_num, url |-> line["url"], key |-> key,
      old |-> line[key], new |-> article[key]] :
        key \in {k \in DOMAIN article : Updates(line, article, k, enriched_file)}}

\* KeepsUnchanged that takes no line for an empty one.
KeepsUnchanged_Never(line) == FALSE

\* Line 82: an empty line, not to be changed.
KeepsUnchanged(line) == ~has_value(line["institution"])

\* Lines 80-108: the lines of the file from the i-th on.
RECURSIVE Lines(_, _, _, _, _, _)
Lines(rows, i, article_dict, updated_lines, messages, enriched_file) ==
    IF i > Len(rows)
    THEN [article_dict |-> article_dict, updated_lines |-> updated_lines,
          messages |-> messages]
    ELSE LET line == rows[i]
             url == line["url"]
         IN  IF KeepsUnchanged(line)
             THEN Lines(rows, i + 1, article_dict, Append(updated_lines, line), messages,
                        enriched_file)
             ELSE IF InDict(article_dict, url)
             THEN Lines(rows, i + 1, Del(article_dict, url),
                        Append(updated_lines,
                               UpdatedLine(line, Lookup(article_dict, url), enriched_file)),
                        messages \cup LineChanges(i, line, Lookup(article_dict, url),
                                                  enriched_file),
                        enriched_file)
             ELSE Lines(rows, i + 1, article_dict, updated_lines,
                        messages \cup {[msg |-> "remove", line_num |-> i, url |-> url]},
                        enriched_file)

\* Lines 117-121: what oat.OpenAPCUnicodeWriter leaves in the file is what
\* DictReader reads from it: the rows, in order.
write_rows(updated_lines) == updated_lines

\* Lines 32-122.  f is the file: whether it exists, and its rows below the header.
integrate_changes(arts, f, enriched_file, dry_run) ==
    IF ~f.exists THEN [returned |-> arts, file |-> f, messages |-> {}]
    ELSE LET done == Lines(f.rows, 1, ArticleDict(arts, 1, <<>>), <<>>, {}, enriched_file)
         IN  [returned |-> [k \in 1..Len(done.article_dict) |-> done.article_dict[k].article],
              file |-> IF dry_run THEN f
                       ELSE [f EXCEPT !.rows = write_rows(done.updated_lines)],
              messages |-> done.messages]

-----------------------------------------------------------------------------
(* Inputs *)

MaxInvoices == 2

RECURSIVE SeqsUpTo(_, _)
SeqsUpTo(S, n) ==
    IF n = 0 THEN {<<>>}
    ELSE LET shorter == SeqsUpTo(S, n - 1)
         IN  shorter \cup {Append(s, x) : s \in {t \in shorter : Len(t) = n - 1}, x \in S}

AmountPaid(cur, cost_type, amount) ==
    [text |-> TRUE, currency |-> cur, cost_type |-> cost_type, amount |-> amount]

Invoice(dates, amounts) ==
    [date_paid |-> dates[1], date_invoice |-> dates[2], amounts_paid |-> amounts]

\* dates//paid and dates//invoice of an invoice element.
InvoiceDateTexts ==
    {<<NoText, NoText>>, <<Str("2020-11"), Str("2022")>>, <<NoText, Str("2021-03-15")>>}

\* amount_paid elements of a publication invoice; "n/a" spells no number.
PubAmountsPaid ==
    {AmountPaid("EUR", "gold-oa", NumText(3)), AmountPaid("EUR", "gold-oa", NumText(0)),
     AmountPaid("EUR", "gold-oa", Str("n/a")), AmountPaid("USD", "gold-oa", NumText(5)),
     AmountPaid("EUR", "hybrid-oa", NumText(3)),
     AmountPaid("EUR", "vat", NumText(1)), AmountPaid("EUR", "vat", Str("n/a")),
     AmountPaid("EUR", "other", NumText(8)),
     [AmountPaid("EUR", "gold-oa", NumText(3)) EXCEPT !.text = FALSE]}

\* The amounts_paid of a publication invoice: none, one, or one of four pairs.
PubAmountsPaidSeqs ==
    {<<>>} \cup {<<a>> : a \in PubAmountsPaid}
    \cup {<<AmountPaid("EUR", "gold-oa", NumText(3)), AmountPaid("EUR", "vat", NumText(1))>>,
          <<AmountPaid("USD", "gold-oa", NumText(5)), AmountPaid("EUR", "vat", NumText(1))>>,
          <<AmountPaid("EUR", "vat", NumText(1)), AmountPaid("EUR", "vat", NumText(1))>>,
          <<AmountPaid("EUR", "gold-oa", NumText(3)), AmountPaid("EUR", "hybrid-oa", NumText(0))>>}

PubInvoices == {Invoice(d, a) : d \in InvoiceDateTexts, a \in PubAmountsPaidSeqs}

NoContract == [present |-> FALSE, primary_identifier |-> NoText, invoice_id |-> NoText]
Contract(primary_identifier, invoice_id) ==
    [present |-> TRUE, primary_identifier |-> primary_identifier, invoice_id |-> invoice_id]

PubContracts == {NoContract, Contract(Str("C1"), Str("I1")), Contract(Str("C1"), NoText)}

PubCostData ==
    {[part_of_contract |-> c, invoices |-> i] :
        c \in PubContracts, i \in SeqsUpTo(PubInvoices, MaxInvoices)}

MaxPubs == 3
MaxRecords == 2

Publication(doi, cd) == [doi |-> doi, has_cost_data |-> TRUE, cost_data |-> cd]
CostData(part_of_contract, invoices) ==
    [part_of_contract |-> part_of_contract, invoices |-> invoices]

PaidIn2021 == <<Str("2021-03-15"), NoText>>
NoDates == <<NoText, NoText>>
Gold3 == <<AmountPaid("EUR", "gold-oa", NumText(3))>>

\* publication elements of a data element: a direct cost, contract references
\* (I9 is no invoice of any contract), both, an unresolvable one, and one
\* without cost_data.
XmlPublications ==
    {Publication(Str("10.1/A"), CostData(NoContract, <<Invoice(PaidIn2021, Gold3)>>)),
     Publication(Str("10.1/b"), CostData(Contract(Str("C1"), Str("I1")), <<>>)),
     Publication(NoText, CostData(Contract(Str("C1"), Str("I2")), <<>>)),
     Publication(Str("10.1/A"),
                 CostData(Contract(Str("C1"), Str("I1")), <<Invoice(PaidIn2021, Gold3)>>)),
     Publication(Str("10.1/A"),
                 CostData(Contract(Str("C1"), Str("I1")),
                          <<Invoice(NoDates, <<AmountPaid("EUR", "hybrid-oa", NumText(0))>>)>>)),
     Publication(Str("10.1/A"), CostData(NoContract, <<Invoice(NoDates, Gold3)>>)),
     [Publication(Str("10.1/A"), CostData(NoContract, <<>>)) EXCEPT !.has_cost_data = FALSE]}

ContractInvoiceElement(invoice_id, from, to, dates_date_invoice, amounts) ==
    [invoice_id |-> invoice_id, from |-> from, to |-> to,
     dates_date_invoice |-> dates_date_invoice,
     date_paid |-> NoText, date_invoice |-> NoText, amounts_paid |-> amounts]

InvoiceI1 ==
    ContractInvoiceElement(Str("I1"), Str("2021-03-15"), Str("2021"), NoText,
        <<AmountPaid("EUR", "read", NumText(4)), AmountPaid("EUR", "vat", NumText(2))>>)
InvoiceI2 ==
    ContractInvoiceElement(Str("I2"), NoText, NoText, Str("2020-11"),
        <<AmountPaid("EUR", "publishing", NumText(3))>>)
InvoiceI1Again ==
    ContractInvoiceElement(Str("I1"), Str("2022"), Str("2022"), NoText,
        <<AmountPaid("EUR", "read", NumText(8))>>)
InvoiceFromToDiffer ==
    ContractInvoiceElement(Str("I3"), Str("2021"), Str("2022"), NoText,
        <<AmountPaid("EUR", "read", NumText(4))>>)

\* The contract elements of a data element, each the invoices of its cost_data.
XmlContracts ==
    {<<>>,
     << <<InvoiceI1>> >>,
     << <<InvoiceI1, InvoiceI2>> >>,
     << <<InvoiceI1, InvoiceFromToDiffer>>, <<InvoiceI2>> >>,
     << <<InvoiceI1>>, <<InvoiceI1Again>> >>}

XmlContent ==
    {[publications |-> p, contracts |-> c] :
        p \in SeqsUpTo(XmlPublications, MaxPubs), c \in XmlContracts}

\* The data elements of harvested OAI records: up to two publications with a
\* positive, a zero and a negative cost, a contract reference and an
\* unresolvable one.
OaiPublications ==
    {Publication(Str("10.1/A"), CostData(NoContract, <<Invoice(PaidIn2021, Gold3)>>)),
     Publication(Str("10.1/b"),
                 CostData(NoContract,
                          <<Invoice(PaidIn2021, <<AmountPaid("EUR", "gold-oa", NumText(0))>>)>>)),
     Publication(Str("10.1/b"),
                 CostData(NoContract,
                          <<Invoice(PaidIn2021, <<AmountPaid("EUR", "hybrid-oa", NumText(-2))>>)>>)),
     Publication(Str("no doi"), CostData(Contract(Str("C1"), Str("I1")), <<>>)),
     Publication(Str("10.1/A"), CostData(NoContract, <<Invoice(NoDates, Gold3)>>))}

OaiPublicationSeqs ==
    {<<>>} \cup {<<a>> : a \in OaiPublications} \cup {<<a, b>> : a, b \in OaiPublications}

RefersToContract(publications) ==
    \E k \in 1..Len(publications) : publications[k].cost_data.part_of_contract.present

\* A data element holds the contract when one of its publications refers to one,
\* and may then also lack it.
OaiContent ==
    {[publications |-> p, contracts |-> <<>>] : p \in OaiPublicationSeqs}
    \cup {[publications |-> p, contracts |-> << <<InvoiceI1>> >>] :
            p \in {q \in OaiPublicationSeqs : RefersToContract(q)}}

OaiRecord(identifier, data) == [has_data |-> TRUE, identifier |-> identifier, data |-> data]

OaiRecordSet ==
    {OaiRecord(Str("oai:1"), d) : d \in OaiContent}
    \cup {[OaiRecord(Str("oai:0"), [publications |-> <<>>, contracts |-> <<>>])
              EXCEPT !.has_data = FALSE]}

OaiBatches == SeqsUpTo(OaiRecordSet, MaxRecords)

MaxRows == 2
MaxArticles == 2

Row(url, institution, euro, doi) ==
    [url |-> url, institution |-> institution, euro |-> euro, doi |-> doi]

\* Rows of an existing dataset: a harvested row, a placeholder with the same
\* url, a row whose euro is spelled differently, a row without url.
DatasetRows ==
    {Row(Str("u1"), Str("A"), NumText(4), Str("d1")),
     Row(Str("u1"), Empty, NumText(4), Str("d1")),
     Row(Str("u2"), Str("A"), NumTextAs(4, "0.020"), Str("d1")),
     Row(NA, Str("A"), NumText(4), Str("d1"))}

Article(url, institution, euro, doi) ==
    [url |-> url, institution |-> institution, euro |-> euro, doi |-> doi,
     identifier |-> Str("oai:1")]

\* Harvested articles, as process_opencost_oai_records returns them.
HarvestedArticles ==
    {Article(Str("u1"), Str("B"), NumText(4), Str("d2")),
     Article(Str("u2"), Str("A"), NumText(4), Str("d2")),
     Article(NA, Str("A"), NumText(4), Str("d1")),
     Article(Str("u1"), Empty, NumText(6), Str("d1"))}

DatasetFiles ==
    {[exists |-> TRUE, enriched |-> e, rows |-> r] :
        e \in BOOLEAN, r \in SeqsUpTo(DatasetRows, MaxRows)}
    \cup {[exists |-> FALSE, enriched |-> FALSE, rows |-> <<>>]}

MaxContractInvoices == 2

\* invoice elements of a contract's cost_data: every way the period fields can
\* be filled, a missing and an empty invoice_id, and amounts that fail.
ContractInvoiceElements ==
    {InvoiceI1, InvoiceI2, InvoiceFromToDiffer,
     ContractInvoiceElement(Str("I4"), NoText, NoText, NoText,
        <<AmountPaid("EUR", "read", NumText(4))>>),
     ContractInvoiceElement(Str("I5"), Str("2021"), NoText, NoText,
        <<AmountPaid("EUR", "read", NumText(4))>>),
     ContractInvoiceElement(Str("I6"), Str("2021"), NoText, Str("2020-11"),
        <<AmountPaid("EUR", "publishing", NumText(3))>>),
     [ContractInvoiceElement(Str("I7"), NoText, NoText, NoText,
        <<AmountPaid("EUR", "read", NumText(4))>>) EXCEPT !.date_invoice = Str("2022")],
     [ContractInvoiceElement(Str("I7"), NoText, NoText, Str("2020-11"),
        <<AmountPaid("EUR", "read", NumText(4))>>) EXCEPT !.date_invoice = Str("2022")],
     ContractInvoiceElement(Str("I8"), Str("2022"), Str("2022"), Str("2020-11"),
        <<AmountPaid("EUR", "read", NumText(8))>>),
     ContractInvoiceElement(NoText, Str("2021"), Str("2021"), NoText,
        <<AmountPaid("EUR", "read", NumText(4))>>),
     ContractInvoiceElement(NA, Str("2021"), Str("2021"), NoText,
        <<AmountPaid("EUR", "read", NumText(4))>>),
     ContractInvoiceElement(Str("I9"), Str("2021"), Str("2021"), NoText,
        <<AmountPaid("USD", "read", NumText(5))>>),
     ContractInvoiceElement(Str("I9"), Str("2021"), Str("2021"), NoText,
        <<AmountPaid("EUR", "vat", NumText(1)), AmountPaid("EUR", "vat", NumText(1)),
          AmountPaid("EUR", "read", NumText(4))>>),
     ContractInvoiceElement(Str("I9"), Str("2021"), Str("2021"), NoText,
        <<AmountPaid("EUR", "read", Str("n/a"))>>)}

\* The invoice elements of one contract's cost_data element.
ContractCostData == SeqsUpTo(ContractInvoiceElements, MaxContractInvoices)


MaxAmounts == 2

\* dates//paid and dates//invoice of an invoice element given to
\* _process_oc_invoice_data: none, both, the invoice date alone, and a paid
\* date of a year without rates before an invoice date of a year with rates.
InvDateTexts ==
    {<<NoText, NoText>>, <<Str("2021-03-15"), Str("2020-11")>>,
     <<NoText, Str("2021-03-15")>>, <<Str("2020-11"), Str("2021-03-15")>>}

\* amount_paid elements: EUR, USD (rates for 2021 only) and GBP (no rates at
\* all); amounts that spell a number, spell none ("n/a"), or are missing.
InvAmountsPaid ==
    {AmountPaid("EUR", "gold-oa", NumText(3)), AmountPaid("EUR", "gold-oa", NumText(4)),
     AmountPaid("EUR", "vat", NumText(1)), AmountPaid("EUR", "vat", NumText(2)),
     AmountPaid("USD", "gold-oa", NumText(5)), AmountPaid("USD", "vat", NumText(6)),
     AmountPaid("GBP", "other", NumText(4)), AmountPaid("EUR", "other", NumText(8)),
     AmountPaid("EUR", "gold-oa", Str("n/a")), AmountPaid("EUR", "gold-oa", NoText),
     [AmountPaid("EUR", "gold-oa", NumText(3)) EXCEPT !.text = FALSE]}

InvoiceElements ==
    {Invoice(d, a) : d \in InvDateTexts, a \in SeqsUpTo(InvAmountsPaid, MaxAmounts)}

-----------------------------------------------------------------------------
(* Specifications *)

\* _process_oc_publication_cost_data on one cost_data element.
InitPub ==
    /\ pc = "start" /\ tie_up = FALSE
    /\ cost_data \in PubCostData /\ pub_ret = <<>>
    /\ xml = <<>> /\ xml_records = <<>> /\ xml_invoices = <<>> /\ xml_ret = <<>>
    /\ batch = <<>> /\ oai_ret = <<>>
    /\ articles = <<>> /\ file = <<>> /\ file_before = <<>>
    /\ returned = <<>> /\ report = <<>> /\ calls = <<>>
    /\ LowerIdle

PublicationCostData ==
    /\ pc = "start"
    /\ pub_ret' = _process_oc_publication_cost_data(cost_data)
    /\ pc' = "done"
    /\ UNCHANGED <<tie_up, cost_data, xml, xml_records, xml_invoices, xml_ret, batch,
                   oai_ret, articles, file, file_before, returned, report, calls, lower>>

NextPub == PublicationCostData

SpecPub == InitPub /\ [][NextPub]_vars

\* process_opencost_xml on one data element.
InitXml ==
    /\ pc = "start" /\ tie_up \in BOOLEAN
    /\ cost_data = <<>> /\ pub_ret = <<>>
    /\ xml \in XmlContent /\ xml_records = <<>> /\ xml_invoices = <<>> /\ xml_ret = <<>>
    /\ batch = <<>> /\ oai_ret = <<>>
    /\ articles = <<>> /\ file = <<>> /\ file_before = <<>>
    /\ returned = <<>> /\ report = <<>> /\ calls = <<>>
    /\ LowerIdle

OpencostXml ==
    /\ pc = "start"
    /\ LET r == process_opencost_xml(xml)
       IN  /\ xml_ret' = r.ret
           /\ xml_records' = r.records
           /\ xml_invoices' = r.invoices
    /\ pc' = "done"
    /\ UNCHANGED <<tie_up, cost_data, pub_ret, xml, batch, oai_ret, articles, file,
                   file_before, returned, report, calls, lower>>

NextXml == OpencostXml

SpecXml == InitXml /\ [][NextXml]_vars

\* process_opencost_oai_records on a harvested batch.
InitOai ==
    /\ pc = "start" /\ tie_up \in BOOLEAN
    /\ cost_data = <<>> /\ pub_ret = <<>>
    /\ xml = <<>> /\ xml_records = <<>> /\ xml_invoices = <<>> /\ xml_ret = <<>>
    /\ batch \in OaiBatches /\ oai_ret = <<>>
    /\ articles = <<>> /\ file = <<>> /\ file_before = <<>>
    /\ returned = <<>> /\ report = <<>> /\ calls = <<>>
    /\ LowerIdle

OpencostOaiRecords ==
    /\ pc = "start"
    /\ oai_ret' = process_opencost_oai_records(batch)
    /\ pc' = "done"
    /\ UNCHANGED <<tie_up, cost_data, pub_ret, xml, xml_records, xml_invoices, xml_ret,
                   batch, articles, file, file_before, returned, report, calls, lower>>

NextOai == OpencostOaiRecords

SpecOai == InitOai /\ [][NextOai]_vars

\* integrate_changes, called again and again with the same harvest on one file.
InitMerge ==
    /\ pc = "start" /\ tie_up = FALSE
    /\ cost_data = <<>> /\ pub_ret = <<>>
    /\ xml = <<>> /\ xml_records = <<>> /\ xml_invoices = <<>> /\ xml_ret = <<>>
    /\ batch = <<>> /\ oai_ret = <<>>
    /\ articles \in SeqsUpTo(HarvestedArticles, MaxArticles)
    /\ file \in DatasetFiles /\ file_before = file
    /\ returned = <<>> /\ report = {} /\ calls = <<>>
    /\ LowerIdle

\* The last two calls: dry_run, and the number of messages.
Called(dry_run, messages) ==
    LET call == [dry_run |-> dry_run, changes |-> Cardinality(messages)]
    IN  IF calls = <<>> THEN <<call>> ELSE <<calls[Len(calls)], call>>

IntegrateChanges(dry_run) ==
    /\ LET r == integrate_changes(articles, file, file.enriched, dry_run)
       IN  /\ file' = r.file
           /\ returned' = r.returned
           /\ report' = r.messages
           /\ calls' = Called(dry_run, r.messages)
    /\ file_before' = file
    /\ pc' = "done"
    /\ UNCHANGED <<tie_up, cost_data, pub_ret, xml, xml_records, xml_invoices, xml_ret,
                   batch, oai_ret, articles, lower>>

NextMerge == \E dry_run \in BOOLEAN : IntegrateChanges(dry_run)

SpecMerge == InitMerge /\ [][NextMerge]_vars

\* _process_oc_invoice_data on one invoice element, strict or lenient.
InitInvoice ==
    /\ pc = "start" /\ tie_up \in BOOLEAN
    /\ cost_data = <<>> /\ pub_ret = <<>>
    /\ xml = <<>> /\ xml_records = <<>> /\ xml_invoices = <<>> /\ xml_ret = <<>>
    /\ batch = <<>> /\ oai_ret = <<>>
    /\ articles = <<>> /\ file = <<>> /\ file_before = <<>>
    /\ returned = <<>> /\ report = <<>> /\ calls = <<>>
    /\ inv_element \in InvoiceElements /\ inv_strict_vat \in BOOLEAN /\ inv_ret = <<>>
    /\ contract_element = <<>> /\ contract_ret = <<>>

InvoiceData ==
    /\ pc = "start"
    /\ inv_ret' = _process_oc_invoice_data(inv_element, inv_strict_vat)
    /\ pc' = "done"
    /\ UNCHANGED <<tie_up, cost_data, pub_ret, xml, xml_records, xml_invoices, xml_ret,
                   batch, oai_ret, articles, file, file_before, returned, report, calls,
                   inv_element, inv_strict_vat, contract_element, contract_ret>>

NextInvoice == InvoiceData

SpecInvoice == InitInvoice /\ [][NextInvoice]_vars

\* _process_oc_contract_cost_data on the cost_data element of one contract.
InitContract ==
    /\ pc = "start" /\ tie_up = FALSE
    /\ cost_data = <<>> /\ pub_ret = <<>>
    /\ xml = <<>> /\ xml_records = <<>> /\ xml_invoices = <<>> /\ xml_ret = <<>>
    /\ batch = <<>> /\ oai_ret = <<>>
    /\ articles = <<>> /\ file = <<>> /\ file_before = <<>>
    /\ returned = <<>> /\ report = <<>> /\ calls = <<>>
    /\ inv_element = <<>> /\ inv_strict_vat = FALSE /\ inv_ret = <<>>
    /\ contract_element \in ContractCostData /\ contract_ret = <<>>

ContractCostDataCall ==
    /\ pc = "start"
    /\ contract_ret' = _process_oc_contract_cost_data(contract_element)
    /\ pc' = "done"
    /\ UNCHANGED <<tie_up, cost_data, pub_ret, xml, xml_records, xml_invoices, xml_ret,
                   batch, oai_ret, articles, file, file_before, returned, report, calls,
                   inv_element, inv_strict_vat, inv_ret, contract_element>>

NextContract == ContractCostDataCall

SpecContract == InitContract /\ [][NextContract]_vars


-----------------------------------------------------------------------------
(* Properties of _process_oc_publication_cost_data (SpecPub) *)

\* The amount_paid elements of a cost_data element that extraction reads, each
\* with the dates of its invoice.
RECURSIVE ReadAmounts(_, _)
ReadAmounts(invoices, i) ==
    IF i > Len(invoices) THEN {}
    ELSE {[invoice |-> i, entry |-> k, amount_paid |-> invoices[i].amounts_paid[k],
           date_paid |-> invoices[i].date_paid, date_invoice |-> invoices[i].date_invoice] :
             k \in {n \in 1..Len(invoices[i].amounts_paid) : invoices[i].amounts_paid[n].text}}
         \cup ReadAmounts(invoices, i + 1)

StatedTypes(cd) == {a.amount_paid.cost_type : a \in ReadAmounts(cd.invoices, 1)}

Unparsable(a) == a.amount_paid.amount # NoText /\ a.amount_paid.amount.t # "numstr"

\* The EUR value of a read amount whose conversion, if any, is possible.
StatedEuro(a) ==
    LET n == IF a.amount_paid.amount = NoText THEN 0 ELSE a.amount_paid.amount.v
        year == IF a.date_paid # NoText THEN DateValue(a.date_paid.v)
                ELSE DateValue(a.date_invoice.v)
    IN  IF a.amount_paid.currency = "EUR" THEN n
        ELSE Round2(n, EXCHANGE_RATES[a.amount_paid.currency][year])

RECURSIVE SumStated(_)
SumStated(S) ==
    IF S = {} THEN 0
    ELSE LET a == CHOOSE x \in S : TRUE IN StatedEuro(a) + SumStated(S \ {a})

OfTypes(cd, types) == {a \in ReadAmounts(cd.invoices, 1) : a.amount_paid.cost_type \in types}

\* The euro the claim states: the sum of the amounts of the cost type and of vat.
StatedTotal(cd, cost_type) ==
    IF \E a \in OfTypes(cd, {cost_type, "vat"}) : Unparsable(a) THEN None
    ELSE Num(SumStated(OfTypes(cd, {cost_type, "vat"})))

PubSucceeded == pc = "done" /\ ~Raised(pub_ret) /\ pub_ret.success

\* C9: when the call succeeds and the invoices hold exactly one of gold-oa and
\* hybrid-oa, euro is the sum of the amounts of that cost type plus the sum of
\* the vat amounts, no amount of another cost type is added to it, and
\* is_hybrid is "FALSE" for gold-oa and "TRUE" for hybrid-oa.
C9_EuroIsCostTypePlusVat ==
    PubSucceeded =>
        /\ ("gold-oa" \in StatedTypes(cost_data) /\ "hybrid-oa" \notin StatedTypes(cost_data))
             => /\ pub_ret.data["euro"] = StatedTotal(cost_data, "gold-oa")
                /\ pub_ret.data["is_hybrid"] = Str("FALSE")
        /\ ("hybrid-oa" \in StatedTypes(cost_data) /\ "gold-oa" \notin StatedTypes(cost_data))
             => /\ pub_ret.data["euro"] = StatedTotal(cost_data, "hybrid-oa")
                /\ pub_ret.data["is_hybrid"] = Str("TRUE")

\* A gold-oa amount and a vat amount with a converted part have been summed
\* into euro, and an amount of another cost type has been left out.
C9_Witness ==
    /\ PubSucceeded
    /\ {"gold-oa", "vat", "other"} \subseteq StatedTypes(cost_data)
    /\ \E a \in OfTypes(cost_data, {"gold-oa"}) : a.amount_paid.currency = "USD"
    /\ pub_ret.data["euro"] = Num(3)
    /\ pub_ret.data["is_hybrid"] = Str("FALSE")

BothStated(cd) == {"gold-oa", "hybrid-oa"} \subseteq StatedTypes(cd)

\* The original C10: a publication whose invoices hold a gold-oa and a
\* hybrid-oa amount always fails with the gold/hybrid conflict error.
C10_AlwaysConflict ==
    (pc = "done" /\ BothStated(cost_data)) =>
        /\ ~Raised(pub_ret)
        /\ ~pub_ret.success
        /\ pub_ret.error_msg = "gold_hybrid_mix"

FailingInvoices(cd) ==
    {i \in 1..Len(cd.invoices) :
        LET r == _process_oc_invoice_data(cd.invoices[i], TRUE)
        IN  Raised(r) \/ ~r.success}

FirstFailing(cd) == CHOOSE i \in FailingInvoices(cd) : \A j \in FailingInvoices(cd) : i <= j

\* C10 as amended: a publication whose invoices hold a gold-oa and a hybrid-oa
\* amount never succeeds; when the call returns, it returns the error of the
\* first invoice whose extraction fails, and the gold/hybrid conflict error
\* when every invoice is extracted, whatever the amounts.
C10_ConflictUnlessInvoiceFails ==
    (pc = "done" /\ BothStated(cost_data) /\ ~Raised(pub_ret)) =>
        /\ ~pub_ret.success
        /\ IF FailingInvoices(cost_data) = {}
           THEN pub_ret.error_msg = "gold_hybrid_mix"
           ELSE pub_ret.error_msg =
                    _process_oc_invoice_data(cost_data.invoices[FirstFailing(cost_data)],
                                             TRUE).error_msg

\* The conflict error has been returned for a gold-oa amount and a hybrid-oa
\* amount of zero.
C10_Witness ==
    /\ pc = "done" /\ ~Raised(pub_ret)
    /\ pub_ret.error_msg = "gold_hybrid_mix"
    /\ \E a \in OfTypes(cost_data, {"hybrid-oa"}) : a.amount_paid.amount = NumText(0)
    /\ \E a \in OfTypes(cost_data, {"gold-oa"}) : a.amount_paid.amount = NumText(3)

\* The years of the date elements of the invoices, by field.
PaidYears(cd) ==
    {DateValue(cd.invoices[i].date_paid.v) :
        i \in {k \in 1..Len(cd.invoices) : cd.invoices[k].date_paid # NoText}}
InvoiceYears(cd) ==
    {DateValue(cd.invoices[i].date_invoice.v) :
        i \in {k \in 1..Len(cd.invoices) : cd.invoices[k].date_invoice # NoText}}
Earliest(years) == CHOOSE y \in years : \A z \in years : StrRank(y) <= StrRank(z)

\* Every invoice is extracted and the final mapping is reached and returns.
MappingReached ==
    /\ pc = "done" /\ ~Raised(pub_ret)
    /\ FailingInvoices(cost_data) = {}
    /\ ~BothStated(cost_data)

-----------------------------------------------------------------------------
(* Properties of _apply_contract_data and process_opencost_xml (SpecXml) *)

XmlReturned == pc = "done" /\ ~Raised(xml_ret)

\* The records whose contract_invoice_id is the invoice's id.
Matched(invoice) ==
    {i \in 1..Len(xml_records) : xml_records[i]["contract_invoice_id"] = invoice["invoice_id"]}

\* The record has a direct gold-oa or hybrid-oa cost greater than zero.
DirectCost(record) ==
    \E cost_type \in {"gold-oa", "hybrid-oa"} :
        IsNum(record[cost_type]) /\ record[cost_type].v > 0

CostFields == {"euro", "period", "is_hybrid"}

\* e is num / den rounded to 2 decimals: a whole number of cents at most half
\* a cent away from the quotient.
IsRounded(e, num, den) ==
    /\ e % 2 = 0
    /\ den * e - num <= den
    /\ num - den * e <= den

\* The original C1: a record with a contract_invoice_id equal to an invoice's
\* id and a direct gold-oa or hybrid-oa cost greater than zero keeps its euro,
\* period and is_hybrid, and the invoice_total is divided by the number of the
\* other records that refer to the invoice.
C1_DirectCostRecordKept ==
    XmlReturned =>
        \A k \in 1..Len(xml_invoices) :
            LET invoice == xml_invoices[k]
                direct == {i \in Matched(invoice) : DirectCost(xml_records[i])}
                others == Matched(invoice) \ direct
            IN  /\ \A i \in direct :
                       \A f \in CostFields : xml_ret.data[i][f] = xml_records[i][f]
                /\ \A i \in others :
                       /\ IsNum(xml_ret.data[i]["euro"])
                       /\ IsRounded(xml_ret.data[i]["euro"].v, invoice["invoice_total"].v,
                                    Cardinality(others))

ResolutionFails(i) ==
    LET p == xml.publications[i]
    IN  \/ ~p.has_cost_data
        \/ Raised(_process_oc_publication_cost_data(p.cost_data))
        \/ ~_process_oc_publication_cost_data(p.cost_data).success

\* The contracts of the data element end the run by themselves.
ContractsAbort ==
    LET c == Contracts(xml.contracts, 1, <<>>)
    IN  Raised(c) \/ InvoiceIdDup(c.data)

\* C4: when cost resolution fails for a publication, the run is not aborted:
\* the returned list holds an all-empty row at the publication's position and
\* a row for every other publication.
C4_FailureIsLocal ==
    (pc = "done" /\ ~ContractsAbort) =>
        \A i \in 1..Len(xml.publications) :
            ResolutionFails(i) =>
                /\ ~Raised(xml_ret)
                /\ Len(xml_ret.data) = Len(xml.publications)
                /\ xml_ret.data[i] = PlaceholderRow


-----------------------------------------------------------------------------
(* Properties of process_opencost_oai_records (SpecOai) *)

\* The euro of a returned record is present and strictly positive.
PositiveEuro(publication) ==
    /\ ~IsNone(publication["euro"])
    /\ has_value(publication["euro"])
    /\ IsNum(_auto_atof(publication["euro"]))
    /\ _auto_atof(publication["euro"]).v > 0

\* C3: every record of the returned list has a euro value that is present and
\* strictly positive.
C3_ReturnedEuroPositive ==
    (pc = "done" /\ ~Raised(oai_ret)) =>
        \A k \in 1..Len(oai_ret.data) : PositiveEuro(oai_ret.data[k])

\* The contract invoices of the batch, as <<record, contract, invoice>> indices,
\* whose contract _process_oc_contract_cost_data extracts.
ExtractedBatchInvoices ==
    UNION {UNION {{<<r, c, i>> : i \in 1..Len(batch[r].data.contracts[c])} :
                     c \in {d \in 1..Len(batch[r].data.contracts) :
                              LET x == _process_oc_contract_cost_data(batch[r].data.contracts[d])
                              IN  ~Raised(x) /\ x.success}} :
              r \in {k \in 1..Len(batch) : batch[k].has_data}}

BatchInvoiceId(p) == batch[p[1]].data.contracts[p[2]][p[3]].invoice_id

\* Two extracted contract invoices of the batch carry the same invoice_id.
DuplicateInvoiceId ==
    \E p, q \in ExtractedBatchInvoices : p # q /\ BatchInvoiceId(p) = BatchInvoiceId(q)

\* C14: when two successfully extracted contract invoices of the batch carry
\* the same invoice_id, in one record or in different OAI records, the run
\* aborts and no publication list is returned.
C14_DuplicateInvoiceIdAborts ==
    (pc = "done" /\ DuplicateInvoiceId) => Raised(oai_ret)

\* The number of publication elements in the data elements of the batch.
RECURSIVE PublicationElements(_)
PublicationElements(i) ==
    IF i > Len(batch) THEN 0
    ELSE (IF batch[i].has_data THEN Len(batch[i].data.publications) ELSE 0)
         + PublicationElements(i + 1)

\* C19: each publication element of the batch appears at most once in the
\* returned list, also when one OAI record holds several publication elements:
\* the list is no longer than the batch has publication elements.
C19_PublicationReturnedOnce ==
    (pc = "done" /\ ~Raised(oai_ret)) => Len(oai_ret.data) <= PublicationElements(1)

-----------------------------------------------------------------------------
(* integrate_changes: properties under SpecMerge *)

Merged == pc = "done" /\ file_before.exists
Rewritten == Merged /\ ~calls[Len(calls)].dry_run
OldRows == file_before.rows
IsPlaceholder(row) == row["institution"] \in {Empty, NA}
ArticleUrls == {articles[i]["url"] : i \in 1..Len(articles)}
UrlHasValue(url) == url \notin {Empty, NA}

\* The elements of seq at the indices in K, in the order of seq.
Pick(seq, K) ==
    LET F[i \in 0..Len(seq)] ==
            IF i = 0 THEN <<>>
            ELSE IF i \in K THEN Append(F[i - 1], seq[i]) ELSE F[i - 1]
    IN  F[Len(seq)]

\* The last incoming article with this url.
LastArticle(url) ==
    articles[CHOOSE j \in 1..Len(articles) :
                /\ articles[j]["url"] = url
                /\ \A k \in (j + 1)..Len(articles) : articles[k]["url"] # url]

\* The rows that take an article: the first non-placeholder row of a url that
\* has a value and is the url of an incoming article.
TakesArticle(i) ==
    /\ ~IsPlaceholder(OldRows[i])
    /\ UrlHasValue(OldRows[i]["url"])
    /\ OldRows[i]["url"] \in ArticleUrls
    /\ \A j \in 1..(i - 1) :
          IsPlaceholder(OldRows[j]) \/ OldRows[j]["url"] # OldRows[i]["url"]

KeptRows == {i \in 1..Len(OldRows) : IsPlaceholder(OldRows[i]) \/ TakesArticle(i)}
KeptIndex == Pick([i \in 1..Len(OldRows) |-> i], KeptRows)

ComesBack(i) ==
    /\ UrlHasValue(articles[i]["url"])
    /\ \A j \in 1..(i - 1) : articles[j]["url"] # articles[i]["url"]
    /\ \A j \in 1..Len(OldRows) :
          IsPlaceholder(OldRows[j]) \/ OldRows[j]["url"] # articles[i]["url"]

C7_KeepsRowsWithArticleUrl ==
    Rewritten =>
        LET kept == Pick([i \in 1..Len(OldRows) |-> i],
                         {i \in 1..Len(OldRows) :
                             \/ IsPlaceholder(OldRows[i])
                             \/ OldRows[i]["url"] \in ArticleUrls})
        IN  /\ Len(file.rows) = Len(kept)
            /\ \A k \in 1..Len(kept) :
                  /\ k <= Len(file.rows)
                  /\ file.rows[k]["url"] = OldRows[kept[k]]["url"]
                  /\ IsPlaceholder(OldRows[kept[k]]) => file.rows[k] = OldRows[kept[k]]

\* C7 (amended): the rewritten dataset is, in the original order, the
\* placeholder rows, unchanged, and for each url that has a value and is the url
\* of an incoming article the first non-placeholder row of that url; every other
\* non-placeholder row is removed and reported.
C7_KeepsFirstRowOfArticleUrl ==
    Rewritten =>
        /\ Len(file.rows) = Len(KeptIndex)
        /\ \A k \in 1..Len(KeptIndex) :
              /\ file.rows[k]["url"] = OldRows[KeptIndex[k]]["url"]
              /\ IsPlaceholder(OldRows[KeptIndex[k]]) => file.rows[k] = OldRows[KeptIndex[k]]
        /\ {m.line_num : m \in {x \in report : x.msg = "remove"}}
              = (1..Len(OldRows)) \ KeptRows

\* A placeholder was kept, a row took an article, and a second row of the same
\* url was removed.
C7_Witness ==
    /\ Rewritten
    /\ Len(OldRows) = 2 /\ Len(file.rows) = 1
    /\ TakesArticle(1) /\ OldRows[2]["url"] = OldRows[1]["url"]
    /\ ~IsPlaceholder(OldRows[2])

NumericallyEqual(old, new) == old.t = "numstr" /\ new.t = "numstr" /\ old.v = new.v

\* C8: in the enriched file a row that takes an article keeps its blacklisted
\* fields; every other field that the article has too ends with the article's
\* value, but euro stays as it is when both values are the same number.
C8_EnrichedKeepsBlacklist ==
    (Rewritten /\ file_before.enriched) =>
        \A k \in 1..Len(KeptIndex) :
            TakesArticle(KeptIndex[k]) =>
                /\ k <= Len(file.rows)
                /\ LET old == OldRows[KeptIndex[k]]
                       new == file.rows[k]
                       article == LastArticle(old["url"])
                   IN  \A key \in DOMAIN old :
                          /\ key \in {"institution", "publisher", "journal_full_title",
                                      "issn", "license_ref", "pmid"}
                                => new[key] = old[key]
                          /\ (key \in DOMAIN article
                              /\ key \notin {"institution", "publisher",
                                             "journal_full_title", "issn",
                                             "license_ref", "pmid"})
                                => new[key] = IF key = "euro"
                                                 /\ NumericallyEqual(old[key], article[key])
                                              THEN old[key] ELSE article[key]

\* An enriched row kept its institution against the article's, took the
\* article's doi, and kept its own spelling of the same euro.
C8_Witness ==
    /\ Rewritten /\ file_before.enriched
    /\ \E k \in 1..Len(KeptIndex) :
          /\ TakesArticle(KeptIndex[k])
          /\ LET old == OldRows[KeptIndex[k]]
                 article == LastArticle(old["url"])
             IN  /\ old["institution"] # article["institution"]
                 /\ file.rows[k]["institution"] = old["institution"]
    /\ \E k \in 1..Len(KeptIndex) :
          /\ TakesArticle(KeptIndex[k])
          /\ LET old == OldRows[KeptIndex[k]]
                 article == LastArticle(old["url"])
             IN  /\ old["euro"] # article["euro"]
                 /\ NumericallyEqual(old["euro"], article["euro"])
                 /\ file.rows[k]["euro"] = old["euro"]
                 /\ old["doi"] # article["doi"]
                 /\ file.rows[k]["doi"] = article["doi"]

-----------------------------------------------------------------------------
(* Properties of _process_oc_contract_cost_data (SpecContract) *)

ContractReturned == pc = "done" /\ contract_element # <<>>

\* The invoice date of a contract invoice: dates//date_invoice, else dates//invoice.
InvoiceDateText(e) ==
    IF e.dates_date_invoice # NoText THEN e.dates_date_invoice ELSE e.date_invoice

\* How the period fields of an invoice element are filled.
PeriodCase(e) ==
    IF e.from # NoText /\ e.to # NoText
    THEN IF DateValue(e.from.v) = DateValue(e.to.v) THEN "equal" ELSE "differ"
    ELSE IF e.from = NoText /\ e.to = NoText
    THEN IF InvoiceDateText(e) # NoText THEN "date_invoice" ELSE "none"
    ELSE "from_or_to"

\* The amounts of the element are plain: in EUR, each spelling a number.
PlainAmounts(e) ==
    \A k \in 1..Len(e.amounts_paid) :
        /\ e.amounts_paid[k].currency = "EUR"
        /\ e.amounts_paid[k].amount # NoText
        /\ e.amounts_paid[k].amount.t = "numstr"

HasInvoiceId(e) == e.invoice_id # NoText /\ e.invoice_id # NA /\ e.invoice_id # Empty

\* The invoice gets a period by one of the two rules.
Resolvable(e) ==
    PlainAmounts(e) /\ HasInvoiceId(e) /\ PeriodCase(e) \in {"equal", "date_invoice"}

\* Every invoice before the i-th gets a period, so that the i-th is looked at.
ReachedInvoice(i) ==
    /\ \A j \in 1..(i - 1) : Resolvable(contract_element[j])
    /\ PlainAmounts(contract_element[i]) /\ HasInvoiceId(contract_element[i])

\* C13: for an invoice with an invoice_id, equal from and to give that year as
\* invoice_period, differing from and to fail the call with the
\* inconsistent-period error, a date_invoice without from and to gives its
\* year, and no from, to and date_invoice fail the call with the
\* missing-period error.
C13_ContractInvoicePeriod ==
    ContractReturned =>
        /\ (\A i \in 1..Len(contract_element) : Resolvable(contract_element[i]))
              => /\ ~Raised(contract_ret) /\ contract_ret.success
                 /\ Len(contract_ret.data) = Len(contract_element)
                 /\ \A i \in 1..Len(contract_element) :
                      LET e == contract_element[i]
                      IN  contract_ret.data[i]["invoice_period"] =
                            IF PeriodCase(e) = "equal" THEN Str(DateValue(e.from.v))
                            ELSE Str(DateValue(InvoiceDateText(e).v))
        /\ \A i \in 1..Len(contract_element) :
              ReachedInvoice(i) =>
                 /\ PeriodCase(contract_element[i]) = "differ"
                       => /\ ~Raised(contract_ret) /\ ~contract_ret.success
                          /\ contract_ret.error_msg = "from_to_diff"
                 /\ PeriodCase(contract_element[i]) = "none"
                       => /\ ~Raised(contract_ret) /\ ~contract_ret.success
                          /\ contract_ret.error_msg = "from_or_to_missing"

\* A contract whose first invoice has equal from and to in different spellings
\* and whose second has only a date_invoice was extracted.
C13_Witness ==
    /\ ContractReturned
    /\ Len(contract_element) = 2
    /\ PeriodCase(contract_element[1]) = "equal"
    /\ contract_element[1].from # contract_element[1].to
    /\ PeriodCase(contract_element[2]) = "date_invoice"
    /\ contract_ret.success
    /\ contract_ret.data[1]["invoice_period"] = Str("2021")
    /\ contract_ret.data[2]["invoice_period"] = Str("2020")

-----------------------------------------------------------------------------
(* Properties of _process_oc_invoice_data (SpecInvoice) *)

InvoiceReturned == pc = "done"

\* The amount_paid entries of the invoice that are read, by index.
ReadEntries == {k \in 1..Len(inv_element.amounts_paid) : inv_element.amounts_paid[k].text}
EntriesOf(cost_type) ==
    {k \in ReadEntries : inv_element.amounts_paid[k].cost_type = cost_type}
CostTypes == {inv_element.amounts_paid[k].cost_type : k \in ReadEntries}

\* Every entry is in EUR and spells a number.
AllPlain ==
    \A k \in ReadEntries :
        /\ inv_element.amounts_paid[k].currency = "EUR"
        /\ inv_element.amounts_paid[k].amount # NoText
        /\ inv_element.amounts_paid[k].amount.t = "numstr"

RECURSIVE SumOfEntries(_)
SumOfEntries(K) ==
    IF K = {} THEN 0
    ELSE LET k == CHOOSE x \in K : TRUE
         IN  inv_element.amounts_paid[k].amount.v + SumOfEntries(K \ {k})

\* C15: an invoice with two or more vat amounts fails with the ambiguous-VAT
\* error and without data when strict_vat is True, and succeeds with vat equal
\* to the sum of the amounts when strict_vat is False; repeated amounts of
\* every other cost type are summed in both modes.
C15_VatStrictOrSummed ==
    (InvoiceReturned /\ AllPlain) =>
        IF inv_strict_vat /\ Cardinality(EntriesOf("vat")) >= 2
        THEN /\ ~Raised(inv_ret) /\ ~inv_ret.success
             /\ inv_ret.data = None
             /\ inv_ret.error_msg = "multiple_vats"
        ELSE /\ ~Raised(inv_ret) /\ inv_ret.success
             /\ \A cost_type \in CostTypes :
                    /\ cost_type \in DOMAIN inv_ret.data
                    /\ inv_ret.data[cost_type] = Num(SumOfEntries(EntriesOf(cost_type)))

\* A lenient call has summed two different vat amounts.
C15_Witness ==
    /\ InvoiceReturned /\ AllPlain /\ ~inv_strict_vat
    /\ Cardinality(EntriesOf("vat")) = 2
    /\ inv_element.amounts_paid[1].amount # inv_element.amounts_paid[2].amount
    /\ inv_ret.success
    /\ inv_ret.data["vat"] = Num(3)

\* The period a conversion of this invoice uses: the year of dates//paid, else
\* of dates//invoice, else none.
ConversionPeriod ==
    IF inv_element.date_paid # NoText THEN DateValue(inv_element.date_paid.v)
    ELSE IF inv_element.date_invoice # NoText THEN DateValue(inv_element.date_invoice.v)
    ELSE "none"

HasRate(cur) ==
    /\ cur \in DOMAIN EXCHANGE_RATES
    /\ ConversionPeriod \in DOMAIN EXCHANGE_RATES[cur]

ForeignEntries == {k \in ReadEntries : inv_element.amounts_paid[k].currency # "EUR"}

\* Every entry spells a number and no second vat stops a strict call, so that
\* only a conversion can fail.
OnlyConversionFails ==
    /\ \A k \in ReadEntries :
          /\ inv_element.amounts_paid[k].amount # NoText
          /\ inv_element.amounts_paid[k].amount.t = "numstr"
    /\ ~(inv_strict_vat /\ Cardinality(EntriesOf("vat")) >= 2)

\* The values the k-th entry can contribute in EUR.
EuroValues(k) ==
    LET a == inv_element.amounts_paid[k]
    IN  IF a.currency = "EUR" THEN {a.amount.v}
        ELSE {e \in 0..a.amount.v :
                IsRounded(e, a.amount.v, EXCHANGE_RATES[a.currency][ConversionPeriod])}

\* The sums the entries in K can make.
RECURSIVE EuroSums(_)
EuroSums(K) ==
    IF K = {} THEN {0}
    ELSE LET k == CHOOSE x \in K : TRUE
         IN  {e + rest : e \in EuroValues(k), rest \in EuroSums(K \ {k})}

\* C16: a non-EUR amount is converted with its currency's rate for the year of
\* date_paid, or of date_invoice when there is no date_paid; without either
\* date, or without a rate for the currency and period, the call fails and
\* returns no data at all.
C16_ConvertedByPeriodOrNoData ==
    (InvoiceReturned /\ OnlyConversionFails) =>
        IF \E k \in ForeignEntries : ~HasRate(inv_element.amounts_paid[k].currency)
        THEN /\ ~Raised(inv_ret) /\ ~inv_ret.success
             /\ inv_ret.data = None
             /\ inv_ret.error_msg \in {"conv_no_period", "conv_failed", "conv_no_rate"}
             /\ ConversionPeriod = "none" => inv_ret.error_msg = "conv_no_period"
        ELSE /\ ~Raised(inv_ret) /\ inv_ret.success
             /\ \A cost_type \in CostTypes :
                    /\ cost_type \in DOMAIN inv_ret.data
                    /\ IsNum(inv_ret.data[cost_type])
                    /\ inv_ret.data[cost_type].v \in EuroSums(EntriesOf(cost_type))

\* An invoice paid in 2021 and dated 2020 had its USD amount converted at the
\* rate of 2021, the only year with a rate.
C16_Witness ==
    /\ InvoiceReturned /\ OnlyConversionFails
    /\ ForeignEntries # {}
    /\ inv_element.date_paid = Str("2021-03-15")
    /\ inv_element.date_invoice = Str("2020-11")
    /\ inv_ret.success
    /\ "gold-oa" \in DOMAIN inv_ret.data
    /\ inv_ret.data["gold-oa"] = Num(2)

\* The entries of a cost type whose amount spells a number.
NumberEntries(cost_type) ==
    {k \in EntriesOf(cost_type) :
        /\ inv_element.amounts_paid[k].amount # NoText
        /\ inv_element.amounts_paid[k].amount.t = "numstr"}

\* C18: an amount_paid entry whose amount is missing or spells no number is
\* treated as absent: it leaves no value, neither zero nor an empty one, for
\* its cost type and does not change the sum of the other entries of the type.
C18_UnparsableAmountIsAbsent ==
    (/\ InvoiceReturned
     /\ ForeignEntries = {}
     /\ ~(inv_strict_vat /\ Cardinality(EntriesOf("vat")) >= 2)) =>
        /\ ~Raised(inv_ret) /\ inv_ret.success
        /\ \A cost_type \in CostTypes :
              IF NumberEntries(cost_type) = {}
              THEN cost_type \notin DOMAIN inv_ret.data
              ELSE /\ cost_type \in DOMAIN inv_ret.data
                   /\ inv_ret.data[cost_type] = Num(SumOfEntries(NumberEntries(cost_type)))

-----------------------------------------------------------------------------
(* A single amount in EUR, under SpecPub *)

\* The cost data is one invoice with a date and one amount_paid entry, in EUR,
\* whose amount spells a number.
SingleEurAmount ==
    /\ Len(cost_data.invoices) = 1
    /\ (cost_data.invoices[1].date_paid # NoText \/ cost_data.invoices[1].date_invoice # NoText)
    /\ Len(cost_data.invoices[1].amounts_paid) = 1
    /\ cost_data.invoices[1].amounts_paid[1].text
    /\ cost_data.invoices[1].amounts_paid[1].currency = "EUR"
    /\ cost_data.invoices[1].amounts_paid[1].amount # NoText
    /\ cost_data.invoices[1].amounts_paid[1].amount.t = "numstr"

\* C17: for cost data of one invoice with a date and a single amount_paid entry
\* in EUR, of any cost type, euro is the input amount rounded to 2 decimals.
C17_SingleEurAmountRounded ==
    (pc = "done" /\ SingleEurAmount) =>
        /\ ~Raised(pub_ret) /\ pub_ret.success
        /\ "euro" \in DOMAIN pub_ret.data
        /\ IsNum(pub_ret.data["euro"])
        /\ IsRounded(pub_ret.data["euro"].v,
                     cost_data.invoices[1].amounts_paid[1].amount.v, 1)

-----------------------------------------------------------------------------
(* Contracts with a failing invoice, under SpecXml *)

\* _process_oc_contract_cost_data fails for the c-th contract of the data element.
ContractFails(c) ==
    LET r == _process_oc_contract_cost_data(xml.contracts[c])
    IN  ~Raised(r) /\ ~r.success

FailedContracts == {c \in 1..Len(xml.contracts) : ContractFails(c)}
ExtractedContracts == (1..Len(xml.contracts)) \ FailedContracts

InvoiceIdsOf(C) ==
    UNION {{xml.contracts[c][i].invoice_id : i \in 1..Len(xml.contracts[c])} : c \in C}

\* The invoice ids that only contracts with a failing invoice hold.
DroppedInvoiceIds == InvoiceIdsOf(FailedContracts) \ InvoiceIdsOf(ExtractedContracts)

\* C20: when an invoice of a contract fails, none of the contract's invoices,
\* the ones extracted before the failing one included, reaches
\* _apply_contract_data and no publication gets a cost from the contract,
\* while the invoices of the other contracts are still distributed.
C20_ContractAllOrNothing ==
    XmlReturned =>
        /\ \A k \in 1..Len(xml_invoices) :
               xml_invoices[k]["invoice_id"] \in InvoiceIdsOf(ExtractedContracts)
        /\ \A id \in InvoiceIdsOf(ExtractedContracts) :
               \E k \in 1..Len(xml_invoices) : xml_invoices[k]["invoice_id"] = id
        /\ \A i \in 1..Len(xml_records) :
               /\ xml_records[i]["contract_invoice_id"] \in DroppedInvoiceIds
                     => xml_ret.data[i] = xml_records[i]
               /\ \A k \in 1..Len(xml_invoices) :
                     i \in Matched(xml_invoices[k])
                         => /\ IsNum(xml_ret.data[i]["euro"])
                            /\ IsRounded(xml_ret.data[i]["euro"].v,
                                         xml_invoices[k]["invoice_total"].v,
                                         Cardinality(Matched(xml_invoices[k])))
                            /\ xml_ret.data[i]["period"] = xml_invoices[k]["invoice_period"]

\* The second invoice of a contract failed after its first was extracted: the
\* publication that refers to the first got no cost, and the publication that
\* refers to the invoice of the other contract got that invoice's total of
\* 0.015 EUR, rounded to 0.02.
C20_Witness ==
    /\ XmlReturned
    /\ \E c \in FailedContracts :
          /\ Len(xml.contracts[c]) = 2
          /\ LET first == _process_oc_contract_cost_data(<<xml.contracts[c][1]>>)
             IN  ~Raised(first) /\ first.success
          /\ \E i \in 1..Len(xml_records) :
                /\ xml_records[i]["contract_invoice_id"] = xml.contracts[c][1].invoice_id
                /\ xml_ret.data[i] = xml_records[i]
                /\ xml_ret.data[i]["euro"] = NA
    /\ \E k \in 1..Len(xml_invoices) :
          \E i \in Matched(xml_invoices[k]) :
              /\ xml_invoices[k]["invoice_total"] = Num(3)
              /\ xml_ret.data[i]["euro"] = Num(4)
====
